---------------------------- MODULE Spec2Model ----------------------------
(***************************************************************************)
(* The Aegis sealing pipeline: seal (core/crypto.rs), the container codec  *)
(* write/read (core/format.rs), and the signature check layered on read.   *)
(*                                                                         *)
(* Byte strings (Vec<u8>, &[u8], String) are kept run-length encoded: a    *)
(* sequence of runs <<b, n>>, n >= 1, adjacent runs holding different      *)
(* bytes.  The encoding is canonical, so equality of encodings is          *)
(* byte-for-byte equality, and a block of MAX_BLOCK_SIZE bytes is one run. *)
(***************************************************************************)
EXTENDS Integers, Sequences, FiniteSets, TLC

-----------------------------------------------------------------------------
(* Bounds of the model *)

\* Explicit payload bytes (summed over all fields of all containers written).
MaxPayload == 2
\* Containers written one after another to the same sink.
MaxWrites == 2
\* Stream offsets at which a delivered stream is cut or altered.
MaxOffset == 46

-----------------------------------------------------------------------------
(* Byte strings *)

Min(a, b) == IF a < b THEN a ELSE b

RECURSIVE Norm(_)
\* Canonical form of a sequence of runs: no empty run, no two adjacent runs
\* of the same byte.
Norm(s) ==
    IF s = <<>> THEN <<>>
    ELSE IF s[1][2] = 0 THEN Norm(Tail(s))
    ELSE IF Len(s) = 1 THEN s
    ELSE IF s[2][2] = 0 THEN Norm(<<s[1]>> \o Tail(Tail(s)))
    ELSE IF s[1][1] = s[2][1]
         THEN Norm(<<(<<s[1][1], s[1][2] + s[2][2]>>)>> \o Tail(Tail(s)))
    ELSE <<s[1]>> \o Norm(Tail(s))

\* The byte string holding the bytes of the explicit sequence q.
Bytes(q) == Norm([i \in 1..Len(q) |-> <<q[i], 1>>])

\* n copies of byte b.
Repeat(b, n) == Norm(<< <<b, n>> >>)

RECURSIVE BLen(_)
\* Number of bytes: Vec::len, slice len.
BLen(s) == IF s = <<>> THEN 0 ELSE s[1][2] + BLen(Tail(s))

\* Concatenation: what write_all / extend appends.
Cat(s, t) == Norm(s \o t)

RECURSIVE Take(_, _)
\* The first Min(n, BLen(s)) bytes of s.
Take(s, n) ==
    IF n <= 0 \/ s = <<>> THEN <<>>
    ELSE IF s[1][2] >= n THEN << <<s[1][1], n>> >>
    ELSE <<s[1]>> \o Take(Tail(s), n - s[1][2])

RECURSIVE Drop(_, _)
\* s without its first Min(n, BLen(s)) bytes.
Drop(s, n) ==
    IF n <= 0 \/ s = <<>> THEN s
    ELSE IF s[1][2] > n THEN <<(<<s[1][1], s[1][2] - n>>)>> \o Tail(s)
    ELSE Drop(Tail(s), n - s[1][2])

\* Bytes i..j (1-based, inclusive) of s.
Slice(s, i, j) == Take(Drop(s, i - 1), j - i + 1)

RECURSIVE Unpack(_)
\* The explicit sequence of the bytes of s (used on short strings only).
Unpack(s) ==
    IF s = <<>> THEN <<>>
    ELSE [i \in 1..s[1][2] |-> s[1][1]] \o Unpack(Tail(s))

\* s with byte i (1-based) replaced by b.
SetByte(s, i, b) == Cat(Cat(Take(s, i - 1), Bytes(<<b>>)), Drop(s, i))

-----------------------------------------------------------------------------
(* core/format.rs: constants and the container *)

\* b"AEGIS1"
MAGIC_NUMBER == <<65, 69, 71, 73, 83, 49>>

MAX_BLOCK_SIZE == 1000000000

\* struct AegisAncient; metadata (a String) is held as its UTF-8 bytes.
AegisAncient(pk, md, sig, img) ==
    [public_key |-> pk, metadata |-> md, signature |-> sig, image_data |-> img]

\* u64::to_be_bytes of a length.  Lengths of the model are below 2^31, so the
\* four high-order bytes are 0.
to_be_bytes(n) ==
    [i \in 1..8 |-> IF i <= 4 THEN 0 ELSE (n \div (256 ^ (8 - i))) % 256]

\* Stands for every u64 of 2^31 or more (the checker's integers are 32-bit).
\* It is above MAX_BLOCK_SIZE, and read uses a length only to compare it with
\* MAX_BLOCK_SIZE and, when it is not above it, as a count.
U64_HUGE == (2 ^ 30 - 1) + 2 ^ 30

\* The decoding mutated: the bytes taken in little-endian order.
from_le_bytes(b) ==
    IF b[5] = 0 /\ b[6] = 0 /\ b[7] = 0 /\ b[8] = 0 /\ b[4] < 128
    THEN b[4] * 16777216 + b[3] * 65536 + b[2] * 256 + b[1]
    ELSE U64_HUGE

\* u64::from_be_bytes of the 8 bytes b.
from_be_bytes(b) ==
    IF b[1] = 0 /\ b[2] = 0 /\ b[3] = 0 /\ b[4] = 0 /\ b[5] < 128
    THEN b[5] * 16777216 + b[6] * 65536 + b[7] * 256 + b[8]
    ELSE U64_HUGE

\* The closure write_block: the 8-byte big-endian length, then the data,
\* appended to the writer's content w.
write_block(data, w) == Cat(Cat(w, Bytes(to_be_bytes(BLen(data)))), data)

\* write mutated: the signature block before the metadata block.
write_swapped(self, w) ==
    write_block(self.image_data,
        write_block(self.metadata,
            write_block(self.signature,
                write_block(self.public_key, Cat(w, Bytes(MAGIC_NUMBER))))))

\* AegisAncient::write into a writer holding w: the writer's new content.
write(self, w) ==
    LET w0 == Cat(w, Bytes(MAGIC_NUMBER))
        w1 == write_block(self.public_key, w0)
        w2 == write_block(self.metadata, w1)
        w3 == write_block(self.signature, w2)
    IN  write_block(self.image_data, w3)

\* Outcome of one step of String::from_utf8's scan: st = <<need, lo, hi>> is
\* the number of continuation bytes still owed and the range allowed for the
\* next one; Utf8Bad is the rejecting state.
Utf8Bad == <<-1, 0, 0>>

Utf8Step(st, b) ==
    IF st = Utf8Bad THEN Utf8Bad
    ELSE IF st[1] > 0
         THEN IF st[2] <= b /\ b <= st[3] THEN <<st[1] - 1, 128, 191>> ELSE Utf8Bad
    ELSE IF b < 128 THEN <<0, 128, 191>>
    ELSE IF 194 <= b /\ b <= 223 THEN <<1, 128, 191>>
    ELSE IF b = 224 THEN <<2, 160, 191>>
    ELSE IF b = 237 THEN <<2, 128, 159>>
    ELSE IF 225 <= b /\ b <= 239 THEN <<2, 128, 191>>
    ELSE IF b = 240 THEN <<3, 144, 191>>
    ELSE IF b = 244 THEN <<3, 128, 143>>
    ELSE IF 241 <= b /\ b <= 243 THEN <<3, 128, 191>>
    ELSE Utf8Bad

RECURSIVE Utf8Times(_, _, _)
\* k steps on the same byte b.
Utf8Times(st, b, k) == IF k = 0 THEN st ELSE Utf8Times(Utf8Step(st, b), b, k - 1)

RECURSIVE Utf8Scan(_, _)
\* The scan over a byte string.  Four steps on one byte decide a run of any
\* length: an ASCII byte leaves the state where one step put it, and any
\* other byte repeated reaches Utf8Bad within four steps.
Utf8Scan(st, s) ==
    IF s = <<>> THEN st
    ELSE Utf8Scan(Utf8Times(st, s[1][1], Min(s[1][2], 4)), Tail(s))

\* String::from_utf8(bytes).is_ok()
from_utf8_ok(s) == Utf8Scan(<<0, 128, 191>>, s)[1] = 0

-----------------------------------------------------------------------------
(* core/crypto.rs: seal.  SHA-256 and ECDSA P-256 are idealised: a digest    *)
(* determines its input, and a signature is determined by, and determines,  *)
(* the signing key and the digest.                                          *)

\* Private keys (scalars) the service may be configured with.
SigningKeys == {1, 2}

\* SigningKey::verifying_key
verifying_key(sk) == [point |-> sk]

\* VerifyingKey::to_sec1_bytes: a tag byte and the point.
to_sec1_bytes(vk) == Bytes(<<4, vk.point>>)

\* Sha256::new, update, finalize: the hasher holds the bytes fed so far.
Sha256_new == <<>>

\* update mutated: only the first update reaches the hasher.
Sha256_update_once(hasher, data) == IF hasher = <<>> THEN data ELSE hasher

Sha256_update(hasher, data) == Cat(hasher, data)

Sha256_finalize(hasher) == [sha256 |-> hasher]

\* The hashing mutated: a one-byte length is fed before the metadata.
data_hash_prefixed(metadata, image_data) ==
    Sha256_finalize(Sha256_update(Sha256_update(Sha256_update(Sha256_new,
        Bytes(<<BLen(metadata)>>)), metadata), image_data))

\* The digest seal signs: metadata's bytes, then the payload's.
data_hash(metadata, image_data) ==
    LET hasher0 == Sha256_new
        hasher1 == Sha256_update(hasher0, metadata)
        hasher2 == Sha256_update(hasher1, image_data)
    IN  Sha256_finalize(hasher2)

\* Signer::sign
sign(sk, digest) == [signer |-> sk, digest |-> digest]

\* Signature::to_bytes
sig_to_bytes(sig) == Cat(Bytes(<<sig.signer>>), sig.digest.sha256)

\* seal mutated: the payload is hashed before the metadata.
seal_swapped(metadata, image_data, private_key) ==
    AegisAncient(to_sec1_bytes(verifying_key(private_key)), metadata,
                 sig_to_bytes(sign(private_key, data_hash(image_data, metadata))),
                 image_data)

\* seal(metadata, image_data, private_key)
seal(metadata, image_data, private_key) ==
    LET public_key == verifying_key(private_key)
        signature  == sign(private_key, data_hash(metadata, image_data))
    IN  AegisAncient(to_sec1_bytes(public_key), metadata,
                     sig_to_bytes(signature), image_data)

\* The verifier's check of a decoded container: the signature against the
\* container's own public key, over the digest of its own metadata and
\* image_data.
verify(c) ==
    \E sk \in SigningKeys :
        /\ c.public_key = to_sec1_bytes(verifying_key(sk))
        /\ c.signature =
               sig_to_bytes(sign(sk,
                   Sha256_finalize(Sha256_update(
                       Sha256_update(Sha256_new, c.metadata), c.image_data))))

-----------------------------------------------------------------------------
(* Inputs *)

\* Bytes of opaque fields: an ASCII letter and a lone continuation byte.
Alphabet == {65, 128}

\* Bytes of metadata texts: also the lead byte of a two-byte character.
TextAlphabet == {65, 195, 128}

\* Values a byte of a delivered stream is altered to.
TamperBytes == {1, 128}

StringsOver(A, n) == UNION {[1..k -> A] : k \in 0..n}

\* Opaque byte strings of at most n bytes.
Blobs(n) == {Bytes(q) : q \in StringsOver(Alphabet, n)}

\* UTF-8 texts of at most n bytes.
Texts(n) == {t \in {Bytes(q) : q \in StringsOver(TextAlphabet, n)} : from_utf8_ok(t)}

\* Field lengths at and just above the ceiling of read.
BigLens == {MAX_BLOCK_SIZE, MAX_BLOCK_SIZE + 1}

\* Total number of field bytes of a container.
Payload(c) ==
    BLen(c.public_key) + BLen(c.metadata) + BLen(c.signature) + BLen(c.image_data)

\* Containers of at most MaxPayload field bytes.
SmallContainers ==
    {c \in {AegisAncient(pk, md, sig, img) :
                pk \in Blobs(MaxPayload), md \in Texts(MaxPayload),
                sig \in Blobs(MaxPayload), img \in Blobs(MaxPayload)} :
        Payload(c) <= MaxPayload}

\* Containers with one field of a length in BigLens, the others empty.
BigContainers ==
    UNION {{AegisAncient(Repeat(65, n), <<>>, <<>>, <<>>),
            AegisAncient(<<>>, Repeat(65, n), <<>>, <<>>),
            AegisAncient(<<>>, <<>>, Repeat(65, n), <<>>),
            AegisAncient(<<>>, <<>>, <<>>, Repeat(65, n))} : n \in BigLens}

\* What a container takes of the payload budget of a sink: its field bytes,
\* or the whole budget when it has a field of a length in BigLens (a sink then
\* holds at most one such field, and every length stays below 2^31).
Cost(c) == IF c \in BigContainers THEN MaxPayload ELSE Payload(c)

RECURSIVE Spent(_)
Spent(cs) == IF cs = <<>> THEN 0 ELSE Cost(cs[1]) + Spent(Tail(cs))

-----------------------------------------------------------------------------
(* State *)

NoRequest == [kind |-> "none"]
None == [some |-> FALSE]
Some(x) == [some |-> TRUE, value |-> x]

\* What AEGIS_PRIVATE_KEY holds: nothing, text that is not hex, hex that is no
\* P-256 private key, or a private key.
KeyEnvs ==
    {[var |-> v, key |-> 0] : v \in {"unset", "not_hex", "not_a_key"}}
        \cup {[var |-> "ok", key |-> k] : k \in SigningKeys}

\* The bytes of a multipart field, or no such field.
ImageFields == {None} \cup {Some(x) : x \in Blobs(MaxPayload)}

MetadataFields ==
    {None} \cup {Some(Bytes(q)) : q \in StringsOver(TextAlphabet, MaxPayload)}
NoResult == [kind |-> "none"]
Ok(c) == [kind |-> "ok", value |-> c]
Err(e) == [kind |-> "err", error |-> e]

ExpectBlock == <<"ExpectPublicKey", "ExpectMetadata", "ExpectSignature", "ExpectImageData">>

VARIABLES
    request,    \* the metadata, payload and key seal_handler sealed
    response,   \* the HTTP status seal_handler answered with (0: none yet)
    written,    \* the containers written to the sink, in order
    sink,       \* the bytes in the sink (a Vec<u8>)
    source,     \* the bytes of the stream handed to read
    srcEnd,     \* what the source answers once its bytes are used up: "eof" or "error"
    rstate,     \* where read stands
    start,      \* bytes the source had delivered when the current read began
    pos,        \* bytes the source has delivered
    blocks,     \* the blocks the current read has decoded so far
    allocs,     \* capacities the current read has allocated (Vec::with_capacity)
    result,     \* what the current read returned
    results,    \* the containers returned by the reads completed on this source
    verified    \* the verifier's verdict on the container last returned

vars == <<request, response, written, sink, source, srcEnd, rstate, start, pos, blocks,
          allocs, result, results, verified>>

Init ==
    /\ request = NoRequest
    /\ response = 0
    /\ written = <<>>
    /\ sink = <<>>
    /\ source = <<>>
    /\ srcEnd = "eof"
    /\ rstate = "Idle"
    /\ start = 0
    /\ pos = 0
    /\ blocks = <<>>
    /\ allocs = <<>>
    /\ result = NoResult
    /\ results = <<>>
    /\ verified = "unchecked"

reader == <<source, srcEnd, rstate, start, pos, blocks, allocs, result, results, verified>>

-----------------------------------------------------------------------------
(* Producing a file *)

\* seal_handler: the key from AEGIS_PRIVATE_KEY, the multipart fields 'image'
\* and 'metadata', then seal and write into a new Vec; the answer is a status
\* and, with 200, the sealed bytes.
seal_handler(env, image, metadata) ==
    /\ rstate = "Idle"
    /\ response = 0
    /\ written = <<>>
    /\ (image.some /\ metadata.some) =>
           BLen(image.value) + BLen(metadata.value) <= MaxPayload
    /\ IF env.var # "ok"
       THEN response' = 500 /\ UNCHANGED <<request, written, sink>>
       ELSE IF metadata.some /\ ~from_utf8_ok(metadata.value)
       THEN response' = 500 /\ UNCHANGED <<request, written, sink>>
       ELSE IF ~image.some \/ ~metadata.some
       THEN response' = 400 /\ UNCHANGED <<request, written, sink>>
       ELSE LET ancient == seal(metadata.value, image.value, env.key)
            IN  /\ response' = 200
                /\ request' = [kind |-> "seal", metadata |-> metadata.value,
                               image_data |-> image.value, key |-> env.key]
                /\ written' = <<ancient>>
                /\ sink' = write(ancient, <<>>)
    /\ UNCHANGED reader

\* A caller of the library writes one more container to the sink.
write_container(c) ==
    /\ rstate = "Idle"
    /\ response = 0
    /\ Len(written) < MaxWrites
    /\ Spent(written) + Cost(c) <= MaxPayload
    /\ written' = Append(written, c)
    /\ sink' = write(c, sink)
    /\ UNCHANGED <<request, response, reader>>

-----------------------------------------------------------------------------
(* Handing a stream to read *)

begin_read(src, end) ==
    /\ rstate = "Idle"
    /\ response \in {0, 200}
    /\ source' = src
    /\ srcEnd' = end
    /\ rstate' = "ExpectMagic"
    /\ UNCHANGED <<request, response, written, sink, start, pos, blocks, allocs, result,
                   results, verified>>

\* The file as written.
Deliver == begin_read(sink, "eof")

\* The file followed by one more byte.
DeliverExtended(b) == begin_read(Cat(sink, Bytes(<<b>>)), "eof")

\* The first n bytes of a one-container file; then the source reports end of
\* file, or fails with an I/O error.
DeliverTruncated(n, end) ==
    /\ rstate = "Idle"
    /\ Len(written) = 1
    /\ n < BLen(sink)
    /\ begin_read(Take(sink, n), end)

\* A one-container file with byte i altered to b.
DeliverModified(i, b) ==
    /\ rstate = "Idle"
    /\ Len(written) = 1
    /\ i <= BLen(sink)
    /\ Unpack(Slice(sink, i, i)) # <<b>>
    /\ begin_read(SetByte(sink, i, b), "eof")

-----------------------------------------------------------------------------
(* core/format.rs: AegisAncient::read, step by step *)

\* Bytes of the source not yet delivered.
Remaining == Drop(source, pos)

\* Early return of read with an error.
fail(e, newPos, newAllocs) ==
    /\ rstate' = "Failed"
    /\ result' = Err(e)
    /\ pos' = newPos
    /\ allocs' = newAllocs
    /\ UNCHANGED <<request, response, written, sink, source, srcEnd, start, blocks,
                   results, verified>>

\* The comparison mutated: only the first byte is compared.
magic_first_byte_differs(magic_buf) == magic_buf[1] # MAGIC_NUMBER[1]

\* magic_buf != *MAGIC_NUMBER
magic_differs(magic_buf) == magic_buf # MAGIC_NUMBER

\* read_exact(&mut magic_buf) and the comparison with MAGIC_NUMBER.
ReadMagic ==
    /\ rstate = "ExpectMagic"
    /\ IF BLen(Remaining) < 6
       THEN fail("Io", BLen(source), allocs)
       ELSE IF magic_differs(Unpack(Take(Remaining, 6)))
       THEN fail("InvalidFormat", pos + 6, allocs)
       ELSE /\ rstate' = ExpectBlock[1]
            /\ pos' = pos + 6
            /\ UNCHANGED <<request, response, written, sink, source, srcEnd, start,
                           blocks, allocs, result, results, verified>>

\* The block is kept: on to the next block, or Ok(AegisAncient { .. }) after
\* the fourth.
next_block(k, data, newPos, newAllocs) ==
    /\ pos' = newPos
    /\ allocs' = newAllocs
    /\ blocks' = Append(blocks, data)
    /\ IF k < 4
       THEN /\ rstate' = ExpectBlock[k + 1]
            /\ UNCHANGED <<result, results>>
       ELSE /\ rstate' = "Done"
            /\ result' = Ok(AegisAncient(blocks[1], blocks[2], blocks[3], data))
            /\ results' = Append(results,
                                 AegisAncient(blocks[1], blocks[2], blocks[3], data))
    /\ UNCHANGED <<request, response, written, sink, source, srcEnd, start, verified>>

\* The validation mutated: the metadata block is not checked for UTF-8.
accept_block_unchecked(k, data, newPos, newAllocs) ==
    next_block(k, data, newPos, newAllocs)

\* What read does with a complete block: the metadata block must be UTF-8.
accept_block(k, data, newPos, newAllocs) ==
    IF k = 2 /\ ~from_utf8_ok(data)
    THEN fail("InvalidFormat", newPos, newAllocs)
    ELSE next_block(k, data, newPos, newAllocs)

\* The ceiling check mutated: a length equal to the ceiling is rejected too.
over_ceiling_inclusive(len) == len >= MAX_BLOCK_SIZE

\* len > MAX_BLOCK_SIZE
over_ceiling(len) == len > MAX_BLOCK_SIZE

\* The read mutated: read_to_end on the reader itself, without take(len).
read_to_end_unlimited(rest, len) == rest

\* r.take(len).read_to_end(&mut data_buf): the bytes that reach data_buf, at
\* most len of those the source still has.
read_to_end_limited(rest, len) == Take(rest, len)

\* The closure read_block, called for block k, and what read does with its
\* result.
read_block(k) ==
    /\ rstate = ExpectBlock[k]
    /\ IF BLen(Remaining) < 8
       THEN fail("Io", BLen(source), allocs)
       ELSE LET len_buf == Unpack(Take(Remaining, 8))
                len == from_be_bytes(len_buf)
                data_buf == read_to_end_limited(Drop(Remaining, 8), len)
                newAllocs == Append(allocs, len)
            IN  IF over_ceiling(len)
                THEN fail("InvalidFormat", pos + 8, allocs)
                ELSE IF BLen(data_buf) # len
                THEN fail(IF srcEnd = "error" THEN "Io" ELSE "InvalidFormat",
                          pos + 8 + BLen(data_buf), newAllocs)
                ELSE accept_block(k, data_buf, pos + 8 + len, newAllocs)

\* read is called again on the same source, after a read that returned Ok.
ReadNext ==
    /\ rstate = "Done"
    /\ Len(results) <= Len(written)
    /\ rstate' = "ExpectMagic"
    /\ start' = pos
    /\ blocks' = <<>>
    /\ allocs' = <<>>
    /\ result' = NoResult
    /\ verified' = "unchecked"
    /\ UNCHANGED <<request, response, written, sink, source, srcEnd, pos, results>>

\* The verifier checks the container read returned.
Verify ==
    /\ rstate = "Done"
    /\ verified = "unchecked"
    /\ verified' = IF verify(result.value) THEN "valid" ELSE "invalid"
    /\ UNCHANGED <<request, response, written, sink, source, srcEnd, rstate, start, pos,
                   blocks, allocs, result, results>>

-----------------------------------------------------------------------------

\* The inputs of each operation that starts while no read is under way.
SealRequest ==
    /\ rstate = "Idle"
    /\ \E env \in KeyEnvs, image \in ImageFields, metadata \in MetadataFields :
           seal_handler(env, image, metadata)

WriteContainer ==
    /\ rstate = "Idle"
    /\ \E c \in SmallContainers \cup BigContainers : write_container(c)

ReadExtended ==
    /\ rstate = "Idle"
    /\ \E b \in Alphabet : DeliverExtended(b)

ReadTruncated ==
    /\ rstate = "Idle"
    /\ \E n \in 0..MaxOffset, end \in {"eof", "error"} : DeliverTruncated(n, end)

ReadModified ==
    /\ rstate = "Idle"
    /\ \E i \in 1..MaxOffset, b \in TamperBytes : DeliverModified(i, b)

Next ==
    \/ SealRequest
    \/ WriteContainer
    \/ Deliver
    \/ ReadExtended
    \/ ReadTruncated
    \/ ReadModified
    \/ ReadMagic
    \/ \E k \in 1..4 : read_block(k)
    \/ ReadNext
    \/ Verify

Spec == Init /\ [][Next]_vars

-----------------------------------------------------------------------------
(* Properties *)

\* Every field of c is at most MAX_BLOCK_SIZE bytes long.
FitsCeiling(c) ==
    /\ BLen(c.public_key) <= MAX_BLOCK_SIZE
    /\ BLen(c.metadata) <= MAX_BLOCK_SIZE
    /\ BLen(c.signature) <= MAX_BLOCK_SIZE
    /\ BLen(c.image_data) <= MAX_BLOCK_SIZE

\* Length of the file of one container: magic, four length prefixes, fields.
FrameLen(c) == 6 + 4 * 8 + Payload(c)

RECURSIVE FramesLen(_)
FramesLen(cs) == IF cs = <<>> THEN 0 ELSE FrameLen(cs[1]) + FramesLen(Tail(cs))

\* The 8 bytes b are the big-endian form of n (n below 2^31).
IsBigEndianOf(b, n) ==
    /\ Len(b) = 8
    /\ \A i \in 1..4 : b[i] = 0
    /\ b[5] < 128
    /\ ((b[5] * 256 + b[6]) * 256 + b[7]) * 256 + b[8] = n

\* seg holds, from offset off on, the 8-byte length of data and then data.
IsBlockAt(seg, off, data) ==
    /\ IsBigEndianOf(Unpack(Slice(seg, off + 1, off + 8)), BLen(data))
    /\ Slice(seg, off + 9, off + 8 + BLen(data)) = data

\* seg is "AEGIS1" and the four blocks of c in the order public_key,
\* metadata, signature, image_data, and nothing else.
IsFrameOf(seg, c) ==
    LET o1 == 6
        o2 == o1 + 8 + BLen(c.public_key)
        o3 == o2 + 8 + BLen(c.metadata)
        o4 == o3 + 8 + BLen(c.signature)
    IN  /\ Unpack(Take(seg, 6)) = <<65, 69, 71, 73, 83, 49>>
        /\ IsBlockAt(seg, o1, c.public_key)
        /\ IsBlockAt(seg, o2, c.metadata)
        /\ IsBlockAt(seg, o3, c.signature)
        /\ IsBlockAt(seg, o4, c.image_data)
        /\ BLen(seg) = o4 + 8 + BLen(c.image_data)

\* The source holds the sink's bytes from its first byte on (and maybe more).
SourceHoldsSink == Take(source, BLen(sink)) = sink

\* C2 (write layout): after every write (the reader leaves written and sink as
\* they are, so the states before a read cover all) the sink holds, for each container written and in the
\* order written, exactly "AEGIS1" followed by the four blocks public_key,
\* metadata, signature, image_data, each an 8-byte big-endian length and the
\* field's bytes; its length is the sum of 6 + 4*8 + the field lengths.
C2_WriteLayout ==
    rstate = "Idle" =>
        /\ BLen(sink) = FramesLen(written)
        /\ \A i \in 1..Len(written) :
               LET off == FramesLen(SubSeq(written, 1, i - 1))
               IN  IsFrameOf(Slice(sink, off + 1, off + FrameLen(written[i])),
                             written[i])

\* Two containers written, each with one non-empty field, in different places.
C2_Witness ==
    /\ rstate = "Idle"
    /\ Len(written) = 2
    /\ BLen(written[1].signature) = 1
    /\ BLen(written[2].metadata) = 1

\* C1 as stated (round trip for every container): read of the bytes write
\* produced for a container ends with Ok of that container.
C1_RoundTripAnyContainer ==
    (Len(written) = 1 /\ source = sink /\ start = 0 /\ rstate \in {"Done", "Failed"})
        => (rstate = "Done" /\ result = Ok(written[1]))

\* C1 amended (round trip up to the ceiling): read of the bytes write produced
\* for a container whose fields are each at most MAX_BLOCK_SIZE bytes ends
\* with Ok of that container, equal field for field.
C1_RoundTrip ==
    (Len(written) = 1 /\ FitsCeiling(written[1]) /\ source = sink /\ start = 0
        /\ rstate \in {"Done", "Failed"})
        => (rstate = "Done" /\ result = Ok(written[1]))

\* A container with a two-byte text and a payload was read back.
C1_Witness ==
    /\ Len(written) = 1
    /\ source = sink
    /\ rstate = "Done"
    /\ result = Ok(written[1])
    /\ written[1].metadata = Bytes(<<195, 128>>)

\* A container with a field of exactly MAX_BLOCK_SIZE bytes was read back.
C1_WitnessAtCeiling ==
    /\ Len(written) = 1
    /\ source = sink
    /\ rstate = "Done"
    /\ result = Ok(written[1])
    /\ Payload(written[1]) = MAX_BLOCK_SIZE

\* A read that returned Ok consumed exactly 6 + 4*8 + the four lengths bytes.
ExactConsumption ==
    rstate = "Done" => pos - start = FrameLen(result.value) /\ pos <= BLen(source)

\* C10 as stated (exact consumption, successive reads): a successful read
\* consumes exactly its frame, and on a stream of k containers, followed or
\* not by other bytes, the first k reads return the containers written, in
\* order.
C10_SuccessiveReadsAnyContainer ==
    /\ ExactConsumption
    /\ SourceHoldsSink /\ rstate # "Idle" =>
           /\ Len(results) <= Len(written) => results = SubSeq(written, 1, Len(results))
           /\ rstate = "Failed" => Len(results) = Len(written)

\* C10 amended: the same, for containers whose fields are each at most
\* MAX_BLOCK_SIZE bytes.
C10_SuccessiveReads ==
    /\ ExactConsumption
    /\ (SourceHoldsSink /\ rstate # "Idle"
           /\ \A i \in 1..Len(written) : FitsCeiling(written[i])) =>
           /\ Len(results) <= Len(written) => results = SubSeq(written, 1, Len(results))
           /\ rstate = "Failed" => Len(results) = Len(written)

\* Two containers were read back from a stream that goes on after them.
C10_Witness ==
    /\ Len(written) = 2
    /\ results = written
    /\ written[1] # written[2]
    /\ rstate = "Done"
    /\ pos < BLen(source)

\* 1,000,000,000 as 8 big-endian bytes (0x000000003B9ACA00).
CeilingBytes == <<0, 0, 0, 0, 59, 154, 202, 0>>

\* The 8 bytes b, read as a big-endian number, are above the ceiling.
AboveCeiling(b) ==
    \E i \in 1..8 :
        /\ b[i] > CeilingBytes[i]
        /\ \A j \in 1..(i - 1) : b[j] = CeilingBytes[j]

\* The number the 8 bytes b stand for, when it is not above the ceiling.
DeclaredLength(b) == ((b[5] * 256 + b[6]) * 256 + b[7]) * 256 + b[8]

\* read is about to decode a block and the source still has its 8-byte prefix.
AtBlockPrefix == rstate \in {ExpectBlock[k] : k \in 1..4} /\ BLen(Remaining) >= 8

\* C3 (bounds enforcement): when the 8-byte length read for a block is above
\* 1,000,000,000 the step ends in Failed with InvalidFormat, having allocated
\* nothing and consumed only the 8 bytes of the prefix; when it is equal to or
\* below it, the step goes past the check: it allocates a buffer of the
\* declared size.
C3_BoundsEnforcement ==
    [][AtBlockPrefix =>
          LET prefix == Unpack(Take(Remaining, 8))
          IN  IF AboveCeiling(prefix)
              THEN /\ rstate' = "Failed"
                   /\ result' = Err("InvalidFormat")
                   /\ allocs' = allocs
                   /\ pos' = pos + 8
              ELSE allocs' = Append(allocs, DeclaredLength(prefix))]_vars

\* The fourth block declared a length above the ceiling: read failed with only
\* the three earlier buffers allocated.
C3_Witness ==
    /\ rstate = "Failed"
    /\ result = Err("InvalidFormat")
    /\ Len(blocks) = 3
    /\ Len(allocs) = 3
    /\ pos >= 8
    /\ AboveCeiling(Unpack(Slice(source, pos - 7, pos)))

\* C4 (truncated block): read of a proper prefix of a one-container file that
\* holds at least the magic, from a source that then reports end of file,
\* fails with InvalidFormat.
C4_TruncatedIsInvalidFormat ==
    (/\ Len(written) = 1
     /\ srcEnd = "eof"
     /\ 6 <= BLen(source) /\ BLen(source) < BLen(sink)
     /\ source = Take(sink, BLen(source))
     /\ start = 0
     /\ rstate \in {"Done", "Failed"})
        => (rstate = "Failed" /\ result = Err("InvalidFormat"))

\* The part of C4 the code meets: a file cut inside the data of a block.
C4_TruncatedInData ==
    (/\ Len(written) = 1
     /\ srcEnd = "eof"
     /\ BLen(source) < BLen(sink)
     /\ source = Take(sink, BLen(source))
     /\ start = 0
     /\ rstate = "Failed"
     /\ Len(allocs) > Len(blocks))
        => result = Err("InvalidFormat")

\* C5 (magic check): when the source has 6 bytes for read and they are not
\* "AEGIS1", read fails with InvalidFormat having consumed those 6 bytes and
\* no other, with no block decoded and no buffer allocated.
C5_MagicCheck ==
    (/\ rstate \notin {"Idle", "ExpectMagic"}
     /\ BLen(source) - start >= 6
     /\ Unpack(Slice(source, start + 1, start + 6)) # <<65, 69, 71, 73, 83, 49>>)
        => /\ rstate = "Failed"
           /\ result = Err("InvalidFormat")
           /\ pos = start + 6
           /\ blocks = <<>>
           /\ allocs = <<>>

\* A stream with a wrong last magic byte and more bytes after it was refused.
C5_Witness ==
    /\ rstate = "Failed"
    /\ result = Err("InvalidFormat")
    /\ BLen(source) > 6
    /\ pos = 6
    /\ Unpack(Slice(source, 1, 5)) = <<65, 69, 71, 73, 83>>
    /\ Unpack(Slice(source, 6, 6)) # <<49>>

\* The states of one read, in order.
ReadOrder == <<"ExpectMagic", "ExpectPublicKey", "ExpectMetadata",
               "ExpectSignature", "ExpectImageData", "Done">>

\* From each state to the next one, or from a state before Done to Failed.
ReadTransitions ==
    {<<ReadOrder[i], ReadOrder[i + 1]>> : i \in 1..5}
        \cup {<<ReadOrder[i], "Failed">> : i \in 1..5}

\* C8 (read-path state machine): within a read the state only moves along
\* ExpectMagic, ExpectBlock(public_key), ExpectBlock(metadata),
\* ExpectBlock(signature), ExpectBlock(image_data), Done, one state at a time,
\* or to Failed; the source is never rewound; Failed is terminal, with no
\* further byte consumed; a container is returned in Done and only there,
\* after four blocks within the ceiling, the metadata valid UTF-8, were read
\* from the stream; a failed read returns an error and no container.
C8_ReadStateMachine ==
    /\ [][(rstate' # rstate /\ rstate # "Idle" /\ ~(rstate = "Done" /\ start' = pos))
             => <<rstate, rstate'>> \in ReadTransitions]_vars
    /\ [][pos' >= pos]_vars
    /\ [][rstate = "Failed" => (rstate' = "Failed" /\ pos' = pos /\ result' = result)]_vars
    /\ [](rstate = "ExpectMagic" => (blocks = <<>> /\ pos = start))
    /\ [](\A k \in 1..4 : rstate = ExpectBlock[k] => Len(blocks) = k - 1)
    /\ [](result.kind = "ok" <=> rstate = "Done")
    /\ [](result.kind = "err" <=> rstate = "Failed")
    /\ [](rstate = "Done" =>
             /\ Len(blocks) = 4
             /\ result.value = AegisAncient(blocks[1], blocks[2], blocks[3], blocks[4])
             /\ from_utf8_ok(result.value.metadata)
             /\ FitsCeiling(result.value)
             /\ IsFrameOf(Slice(source, start + 1, pos), result.value))

\* A read failed on a metadata block that was complete: its bytes are not
\* UTF-8.
C8_Witness ==
    /\ rstate = "Failed"
    /\ result = Err("InvalidFormat")
    /\ Len(blocks) = 1
    /\ Len(allocs) = 2
    /\ pos - start = 6 + 8 + BLen(blocks[1]) + 8 + allocs[2]
    /\ allocs[2] > 0

\* The container seal_handler sealed and wrote.
Sealed == written[1]

\* C6 (verification soundness): the container seal returns carries the
\* metadata and payload it was given and the public key of the private key,
\* and its signature verifies under that key over the digest of its own
\* metadata followed by its own image_data; read of the written container
\* returns it, and it verifies again.
C6_SealVerifies ==
    request.kind = "seal" =>
        /\ response = 200
        /\ rstate = "Idle" =>
               /\ Sealed.metadata = request.metadata
               /\ Sealed.image_data = request.image_data
               /\ Sealed.public_key = to_sec1_bytes(verifying_key(request.key))
               /\ verify(Sealed)
        /\ (source = sink /\ start = 0 /\ rstate # "Idle") =>
               /\ rstate # "Failed"
               /\ rstate = "Done" =>
                      /\ result = Ok(Sealed)
                      /\ verify(result.value)
                      /\ verified \in {"unchecked", "valid"}

\* A sealed container with metadata and a payload was read back and verified.
C6_Witness ==
    /\ request.kind = "seal"
    /\ request.metadata # <<>>
    /\ request.image_data # <<>>
    /\ source = sink
    /\ rstate = "Done"
    /\ verified = "valid"

\* Values a byte of a sealed container is changed to.
AlteredBytes == {1, 2, 65, 128, 195}

\* The containers that differ from c in one byte of the field f.
AlteredIn(c, f) ==
    UNION {{[c EXCEPT ![f] = SetByte(c[f], i, b)] :
               b \in {x \in AlteredBytes : Unpack(Slice(c[f], i, i)) # <<x>>}} :
           i \in 1..BLen(c[f])}

\* C7 (verification rejects tampering): a sealed container with one byte of
\* its image_data, metadata or signature changed does not verify; and when
\* read returns, from a sealed file with one byte altered, a container with
\* the sealed one's public key and field lengths, the verifier rejects it.
C7_TamperRejected ==
    request.kind = "seal" =>
        /\ rstate = "Idle" =>
               \A f \in {"metadata", "signature", "image_data"} :
                   \A c \in AlteredIn(Sealed, f) : ~verify(c)
        /\ (/\ rstate = "Done"
            /\ start = 0
            /\ source # sink
            /\ BLen(source) = BLen(sink)
            /\ result.value.public_key = Sealed.public_key
            /\ BLen(result.value.metadata) = BLen(Sealed.metadata)
            /\ BLen(result.value.signature) = BLen(Sealed.signature))
               => (~verify(result.value) /\ verified # "valid")

\* A sealed file with a byte of its payload altered was read and rejected by
\* the verifier.
C7_Witness ==
    /\ request.kind = "seal"
    /\ request.metadata # <<>>
    /\ rstate = "Done"
    /\ verified = "invalid"
    /\ result.value.public_key = Sealed.public_key
    /\ result.value.metadata = Sealed.metadata
    /\ result.value.signature = Sealed.signature
    /\ BLen(result.value.image_data) = BLen(Sealed.image_data)
    /\ result.value.image_data # Sealed.image_data

\* The (metadata, payload) pairs that concatenate to the bytes of the request.
SameConcatenation ==
    {p \in Texts(MaxPayload) \X Blobs(MaxPayload) :
        Cat(p[1], p[2]) = Cat(request.metadata, request.image_data)}

\* C9 (digest composition): every (metadata, payload) pair with the same
\* concatenation as the sealed pair has the digest seal signed, seal gives it
\* the same signature under the same key, and the sealed signature verifies
\* for a container carrying that pair and the sealed public key.
C9_DigestOfConcatenation ==
    (request.kind = "seal" /\ rstate = "Idle") =>
        \A p \in SameConcatenation :
            /\ data_hash(p[1], p[2]) = data_hash(request.metadata, request.image_data)
            /\ seal(p[1], p[2], request.key).signature = Sealed.signature
            /\ verify([Sealed EXCEPT !.metadata = p[1], !.image_data = p[2]])

\* A request was sealed whose bytes split in another way too.
C9_Witness ==
    /\ request.kind = "seal"
    /\ rstate = "Idle"
    /\ request.metadata = Bytes(<<65>>)
    /\ request.image_data = Bytes(<<65>>)
    /\ <<Bytes(<<65, 65>>), <<>>>> \in SameConcatenation
    /\ <<(<<>>), Bytes(<<65, 65>>)>> \in SameConcatenation

=============================================================================
